---- MODULE Spec2Model ----
(***************************************************************************)
(* WeDraftSync: the access-token cache (utils/wx_token.py), the draft      *)
(* submitter (utils/uploader.py) and the batch orchestrator (main.py).     *)
(*                                                                         *)
(* Python values are modelled by tagged records, so that isinstance()      *)
(* tests, dict.get() defaults and truthiness are decided as the code       *)
(* decides them.  Time is integer seconds.                                 *)
(***************************************************************************)
EXTENDS Integers, Sequences, FiniteSets

VARIABLES
    cacheFile,      \* content of .access_token_cache.json on disk
    now,            \* time.time(), integer seconds
    last,           \* record of the most recent get_access_token call (history)
    calls,          \* number of get_access_token calls so far (history)
    pc,             \* position of main(): "start", "auth", "loop", "done"
    articles,       \* list returned by load_articles_from_folder
    appid,          \* main(): appid, appsecret (from _extract_credentials)
    appsecret,
    access_token,   \* main(): token returned by get_access_token
    index,          \* main(): number of articles the loop has processed
    success_count,
    failure_count,
    log,            \* entries appended to upload_log.txt by this run
    attempts,       \* history: the upload_draft calls of this run, in order
    summary,        \* the final summary printed at main.py:158-160, or NoSummary
    exit            \* why main() returned

vars == <<cacheFile, now, last, calls, pc, articles, appid, appsecret, access_token,
          index, success_count, failure_count, log, attempts, summary, exit>>

tokenVars == <<cacheFile, now, last, calls>>
mainVars == <<pc, articles, appid, appsecret, access_token, index,
              success_count, failure_count, log, attempts, summary, exit>>

----------------------------------------------------------------------------
(* Bounds *)

MaxTime == 2          \* the clock runs over 0 .. MaxTime
MaxExtra == 1         \* declared lifetimes reach _CACHE_SAFETY_WINDOW + MaxExtra
MaxCalls == 2         \* direct calls of get_access_token in one behaviour
MaxArticles == 3      \* at most this many loaded articles

Max(a, b) == IF a >= b THEN a ELSE b

----------------------------------------------------------------------------
(* utils/wx_token.py *)

_CACHE_SAFETY_WINDOW == 60

AppIds == {"A", "B"}

\* A value stored under one key of the cache mapping.
\*   tag "absent"  : the key is not in the mapping
\*   tag "notdict" : the value is not a dict
\*   tag "dict"    : tokStr = isinstance(access_token, str);
\*                   expKind "num" / "nonnum" / "missing" (key expires_at absent)
NoEntry == [tag |-> "absent", tokStr |-> FALSE, access_token |-> "",
            expKind |-> "missing", expires_at |-> 0]
NotDictEntry == [tag |-> "notdict", tokStr |-> FALSE, access_token |-> "",
                 expKind |-> "missing", expires_at |-> 0]
DictEntry(tok, exp) == [tag |-> "dict", tokStr |-> TRUE, access_token |-> tok,
                        expKind |-> "num", expires_at |-> exp]

EmptyData == [a \in AppIds |-> NoEntry]

\* The cache file: kind "absent" (no file), "mapping" (a JSON object, data),
\* "notmapping" (valid JSON, not an object), "badjson" (not JSON),
\* "badenc" (bytes that are not UTF-8), "unreadable" (open raises OSError).
File(kind, data) == [kind |-> kind, data |-> data]

\* _load_cache: raised is TRUE when an exception leaves the function.
\* json.load on bytes that are not UTF-8 raises UnicodeDecodeError, which is
\* neither json.JSONDecodeError nor OSError.
_load_cache(file) ==
    IF file.kind = "absent" THEN [raised |-> FALSE, data |-> EmptyData]
    ELSE IF file.kind = "badenc" THEN [raised |-> TRUE, data |-> EmptyData]
    ELSE IF file.kind \in {"badjson", "unreadable"}
         THEN [raised |-> FALSE, data |-> EmptyData]
    ELSE IF file.kind # "mapping" THEN [raised |-> FALSE, data |-> EmptyData]
    ELSE [raised |-> FALSE, data |-> file.data]

\* _save_cache: outcome "ok", or an OSError (logged, swallowed) raised by
\* open() ("open_failed", the file is untouched) or after open() truncated the
\* file ("write_failed", the file is left without valid JSON).
SaveOutcomes == {"ok", "open_failed", "write_failed"}

_save_cache(file, cache, outcome) ==
    IF outcome = "ok" THEN File("mapping", cache)
    ELSE IF outcome = "open_failed" THEN file
    ELSE File("badjson", EmptyData)

\* (variant) the expiry test inverted: an entry is served once it has expired.
_get_cached_token_inverted(file, id, t) ==
    LET cache == _load_cache(file).data
        entry == cache[id]
        expires_at == IF entry.expKind = "missing" THEN 0 ELSE entry.expires_at
    IN  IF entry.tag # "dict" THEN ""
        ELSE IF ~entry.tokStr \/ entry.expKind = "nonnum" THEN ""
        ELSE IF t < expires_at THEN ""
        ELSE entry.access_token

\* _get_cached_token, for a cache that loaded without raising.
_get_cached_token(file, id, t) ==
    LET cache == _load_cache(file).data
        entry == cache[id]
        expires_at == IF entry.expKind = "missing" THEN 0 ELSE entry.expires_at
    IN  IF entry.tag # "dict" THEN ""
        ELSE IF ~entry.tokStr \/ entry.expKind = "nonnum" THEN ""
        ELSE IF t >= expires_at THEN ""
        ELSE entry.access_token

\* (variant) the new entry replaces the mapping instead of joining it.
_update_cache_replace(file, id, tok, expires_in, t, outcome) ==
    LET expires_at == t + Max(0, expires_in - _CACHE_SAFETY_WINDOW)
    IN  _save_cache(file, [EmptyData EXCEPT ![id] = DictEntry(tok, expires_at)], outcome)

\* (variant) the remaining lifetime is stored, not the time of expiry.
_update_cache_relative(file, id, tok, expires_in, t, outcome) ==
    LET expires_at == Max(0, expires_in - _CACHE_SAFETY_WINDOW)
        cache == _load_cache(file).data
    IN  _save_cache(file, [cache EXCEPT ![id] = DictEntry(tok, expires_at)], outcome)

\* (variant) the safety margin is subtracted without the clamp at zero.
_update_cache_unclamped(file, id, tok, expires_in, t, outcome) ==
    LET expires_at == t + (expires_in - _CACHE_SAFETY_WINDOW)
        cache == _load_cache(file).data
    IN  _save_cache(file, [cache EXCEPT ![id] = DictEntry(tok, expires_at)], outcome)

\* _update_cache at time t.
_update_cache(file, id, tok, expires_in, t, outcome) ==
    LET expires_at == t + Max(0, expires_in - _CACHE_SAFETY_WINDOW)
        cache == _load_cache(file).data
    IN  _save_cache(file, [cache EXCEPT ![id] = DictEntry(tok, expires_at)], outcome)

\* The authentication endpoint's answer to requests.get.
\*   kind "neterr"  : requests.RequestException
\*   kind "status"  : status_code != 200
\*   kind "badbody" : response.json() raises ValueError
\*   kind "nondict" : the body is JSON but not an object (data.get raises)
\*   kind "json"    : an object; tokStr = isinstance(access_token, str);
\*                    expKind "num" (int), "nan" (float NaN: int() raises),
\*                    "nonnum" (absent or not a number)
Lifetimes == {30} \cup (_CACHE_SAFETY_WINDOW .. _CACHE_SAFETY_WINDOW + MaxExtra)

AuthFailure(kind) == [kind |-> kind, tokStr |-> FALSE, access_token |-> "",
                      expKind |-> "nonnum", expires_in |-> 0]
AuthBody(tokStr, tok, expKind, expires_in) ==
    [kind |-> "json", tokStr |-> tokStr, access_token |-> tok,
     expKind |-> expKind, expires_in |-> expires_in]

AuthResponses ==
    {AuthFailure(k) : k \in {"neterr", "status", "badbody", "nondict"}}
    \cup {AuthBody(TRUE, "T1", "num", L) : L \in Lifetimes}
    \cup {AuthBody(TRUE, "", "num", _CACHE_SAFETY_WINDOW + 1),
          AuthBody(TRUE, "T1", "nan", 0), AuthBody(TRUE, "T1", "nonnum", 0),
          AuthBody(FALSE, "", "num", _CACHE_SAFETY_WINDOW + 1),
          AuthBody(FALSE, "", "nonnum", 0)}

\* The result of one call: ret is the returned string, raised tells that an
\* exception left the function instead, net that requests.get was called,
\* wrote that _update_cache was called, file and t the cache file and the
\* clock afterwards.
Result(ret, raised, net, wrote, file, t) ==
    [ret |-> ret, raised |-> raised, net |-> net, wrote |-> wrote,
     file |-> file, t |-> t]

\* get_access_token(appid, appsecret) called at time t0 on cache file `file`;
\* resp is the endpoint's answer, d the seconds the request took, outcome the
\* outcome of _save_cache.
get_access_token(file, t0, id, secret, resp, d, outcome) ==
    IF id = "" \/ secret = "" THEN Result("", FALSE, FALSE, FALSE, file, t0)
    ELSE IF _load_cache(file).raised THEN Result("", TRUE, FALSE, FALSE, file, t0)
    ELSE IF _get_cached_token(file, id, t0) # ""
         THEN Result(_get_cached_token(file, id, t0), FALSE, FALSE, FALSE, file, t0)
    ELSE IF resp.kind \in {"neterr", "status", "badbody"}
         THEN Result("", FALSE, TRUE, FALSE, file, t0 + d)
    ELSE IF resp.kind = "nondict" THEN Result("", TRUE, TRUE, FALSE, file, t0 + d)
    ELSE IF resp.tokStr /\ resp.expKind = "nan"
         THEN Result("", TRUE, TRUE, FALSE, file, t0 + d)
    ELSE IF resp.tokStr /\ resp.expKind = "num"
         THEN Result(resp.access_token, FALSE, TRUE, TRUE,
                     _update_cache(file, id, resp.access_token, resp.expires_in,
                                   t0 + d, outcome),
                     t0 + d)
    ELSE Result("", FALSE, TRUE, FALSE, file, t0 + d)

----------------------------------------------------------------------------
(* State *)

\* Entries a cache file found on disk may hold for the identifier in use,
\* and for another application's identifier.
InitEntries ==
    {NoEntry, NotDictEntry}
    \cup {DictEntry("T0", 1), DictEntry("T0", MaxTime), DictEntry("", MaxTime)}
    \cup {[DictEntry("T0", MaxTime) EXCEPT !.tokStr = FALSE],
          [DictEntry("T0", MaxTime) EXCEPT !.expKind = "nonnum"],
          [DictEntry("T0", 0) EXCEPT !.expKind = "missing"]}

OtherEntries == {NoEntry, DictEntry("T9", MaxTime)}

BrokenKinds == {"notmapping", "badjson", "badenc", "unreadable"}

InitFiles ==
    {File(k, EmptyData) : k \in {"absent"} \cup BrokenKinds}
    \cup {File("mapping", [a \in AppIds |-> IF a = "A" THEN e ELSE o]) :
            e \in InitEntries, o \in OtherEntries}

\* History of the most recent get_access_token call: its arguments, the cache
\* file and clock it started from, the lifetime the endpoint declared, the
\* outcome of the cache write, its result, and (prev) what the call before it
\* persisted: the identifier, the token, the time t of _update_cache and the
\* declared lifetime L, when that call was given both credentials, reached
\* _update_cache and its cache write succeeded.
NoPrev == [refreshed |-> FALSE, id |-> "", ret |-> "", t |-> 0, L |-> 0]
NoCall == [called |-> FALSE, id |-> "", secret |-> "", t0 |-> 0,
           before |-> File("absent", EmptyData), L |-> 0,
           saved |-> "none", ret |-> "", raised |-> FALSE, net |-> FALSE,
           wrote |-> FALSE, t |-> 0, prev |-> NoPrev]

Summarise(c) ==
    IF c.called /\ c.net /\ c.wrote /\ c.saved = "ok"
    THEN [refreshed |-> TRUE, id |-> c.id, ret |-> c.ret, t |-> c.t, L |-> c.L]
    ELSE NoPrev

CallRecord(id, secret, resp, outcome, r) ==
    [called |-> TRUE, id |-> id, secret |-> secret, t0 |-> now,
     before |-> cacheFile,
     L |-> IF r.wrote THEN resp.expires_in ELSE 0,
     saved |-> IF r.wrote THEN outcome ELSE "none",
     ret |-> r.ret, raised |-> r.raised, net |-> r.net, wrote |-> r.wrote,
     t |-> r.t, prev |-> Summarise(last)]

NoSummary == [reported |-> FALSE, success |-> 0, failure |-> 0]

MainInit ==
    /\ pc = "start"
    /\ articles = <<>>
    /\ appid = ""
    /\ appsecret = ""
    /\ access_token = ""
    /\ index = 0
    /\ success_count = 0
    /\ failure_count = 0
    /\ log = <<>>
    /\ attempts = <<>>
    /\ summary = NoSummary
    /\ exit = "running"

TokenInit ==
    /\ cacheFile \in InitFiles
    /\ now = 0
    /\ last = NoCall
    /\ calls = 0
    /\ MainInit

----------------------------------------------------------------------------
(* The token provider called directly *)

\* Whether a call reaches requests.get, and whether the answer reaches
\* _update_cache (wx_token.py:93-100 and :129).
ReachesRequest(file, t0, id, secret) ==
    /\ id # "" /\ secret # ""
    /\ ~_load_cache(file).raised
    /\ _get_cached_token(file, id, t0) = ""

ReachesUpdate(resp) ==
    resp.kind = "json" /\ resp.tokStr /\ resp.expKind = "num"

\* The arguments callers pass: an identifier and a secret, either of which
\* may be missing.
Credentials == {<<"A", "s">>, <<"B", "s">>, <<"", "s">>, <<"A", "">>}

\* One call of get_access_token(id, secret): the state it leaves.
Call(id, secret, resp, d, outcome) ==
    LET r == get_access_token(cacheFile, now, id, secret, resp, d, outcome)
    IN  /\ cacheFile' = r.file
        /\ now' = r.t
        /\ last' = CallRecord(id, secret, resp, outcome, r)
        /\ calls' = calls + 1

\* The endpoint's answer, the request's duration and the outcome of the
\* cache write are drawn only on the paths that reach them.
CallWith(id, secret) ==
    IF ~ReachesRequest(cacheFile, now, id, secret)
    THEN Call(id, secret, AuthFailure("neterr"), 0, "ok")
    ELSE \E resp \in AuthResponses, d \in {0, 1} :
            /\ now + d <= MaxTime
            /\ IF ReachesUpdate(resp)
               THEN \E outcome \in SaveOutcomes : Call(id, secret, resp, d, outcome)
               ELSE Call(id, secret, resp, d, "ok")

CallGetAccessToken ==
    /\ calls < MaxCalls
    /\ \E c \in Credentials : CallWith(c[1], c[2])
    /\ UNCHANGED mainVars

\* Time passes between calls.
Tick ==
    /\ calls < MaxCalls
    /\ now < MaxTime
    /\ now' = now + 1
    /\ UNCHANGED <<cacheFile, last, calls>>
    /\ UNCHANGED mainVars

TokenNext == CallGetAccessToken \/ Tick

TokenSpec == TokenInit /\ [][TokenNext]_vars

----------------------------------------------------------------------------
(* utils/uploader.py *)

\* The submission endpoint's answer to requests.post.
\*   kind "neterr" / "status" / "badbody" / "nondict" as for authentication;
\*   kind "json": an object; idStr = isinstance(media_id, str); errcode is
\*   the object's errcode, NoCode when it has none.
NoCode == [given |-> FALSE, code |-> 0]
Code(n) == [given |-> TRUE, code |-> n]

UploadFailure(kind) == [kind |-> kind, idStr |-> FALSE, media_id |-> "",
                        errcode |-> NoCode]
UploadBody(idStr, id, errcode) ==
    [kind |-> "json", idStr |-> idStr, media_id |-> id, errcode |-> errcode]

UploadResponses ==
    {UploadFailure(k) : k \in {"neterr", "status", "badbody", "nondict"}}
    \cup {UploadBody(TRUE, "MEDIA123", NoCode), UploadBody(TRUE, "", Code(40001)),
          UploadBody(FALSE, "", Code(40001)), UploadBody(FALSE, "", NoCode)}

\* The result of upload_draft: ret the returned string, raised an exception
\* leaving the function, net that requests.post was called, printed the
\* errcode shown in the message upload_draft itself prints and logs on the
\* last path (uploader.py:130-134), NoCode when that message is not printed.
Uploaded(ret, raised, net, printed) ==
    [ret |-> ret, raised |-> raised, net |-> net, printed |-> printed]

\* upload_draft(access_token, title, content) with the defaults main() uses
\* (is_markdown = False: the content is sent as it is).
upload_draft(token, title, content, resp) ==
    IF token = "" THEN Uploaded("", FALSE, FALSE, NoCode)
    ELSE IF title = "" \/ content = "" THEN Uploaded("", FALSE, FALSE, NoCode)
    ELSE IF resp.kind \in {"neterr", "status", "badbody"}
         THEN Uploaded("", FALSE, TRUE, NoCode)
    ELSE IF resp.kind = "nondict" THEN Uploaded("", TRUE, TRUE, NoCode)
    ELSE IF resp.idStr /\ resp.media_id # ""
         THEN Uploaded(resp.media_id, FALSE, TRUE, NoCode)
    ELSE Uploaded("", FALSE, TRUE, resp.errcode)

\* Whether a submission reaches requests.post (uploader.py:72-82).
ReachesPost(token, title, content) == token # "" /\ title # "" /\ content # ""

----------------------------------------------------------------------------
(* main.py *)

\* load_articles_from_folder: the titles are file stems (or the head of a
\* non-empty content), never empty; a file may be empty.
Titles == <<"a", "b", "c", "d", "e", "f">>
Contents == {"World", ""}

ArticleLists ==
    UNION {[1 .. n -> Contents] : n \in 0 .. MaxArticles}

Article(i, content) == [title |-> Titles[i], content |-> content]

\* The configuration: each credential key holds a value or nothing.
Configs == [appid : {"", "A"}, wx_appid : {"", "A"},
            secret : {"", "s"}, wx_appsecret : {"", "s"}]

Either(x, y) == IF x # "" THEN x ELSE y

_extract_credentials(config) ==
    [appid |-> Either(config.appid, config.wx_appid),
     secret |-> Either(config.secret, config.wx_appsecret)]

\* An entry of upload_log.txt (the timestamp left out).  The detail is built
\* from the returned media_id or from the exception alone.
LogEntry(status, title, kind, media_id, errcode) ==
    [status |-> status, title |-> title,
     detail |-> [kind |-> kind, media_id |-> media_id, errcode |-> errcode]]

\* (variant) the failure entry repeats the error code of the answer.
FailureEntry_withCode(title, r) ==
    IF r.raised THEN LogEntry("failure", title, "exception", "", NoCode)
    ELSE LogEntry("failure", title, "no_media_id", "", r.printed)

\* main.py:138-144 and :151-156: the entry written for a failed article.
FailureEntry(title, r) ==
    IF r.raised THEN LogEntry("failure", title, "exception", "", NoCode)
    ELSE LogEntry("failure", title, "no_media_id", "", NoCode)

\* main.py:146-150
SuccessEntry(title, r) == LogEntry("success", title, "media_id", r.ret, NoCode)

\* _write_log_entry: appends the entry; an OSError is logged and swallowed.
_write_log_entry(file, entry, ok) == IF ok THEN Append(file, entry) ELSE file

Finish(reason) ==
    /\ pc' = "done"
    /\ exit' = reason

\* main.py:86-110: configuration, articles, credentials.
LoadArticles ==
    /\ pc = "start"
    /\ \E config \in Configs, raises \in BOOLEAN, list \in ArticleLists :
        LET creds == _extract_credentials(config)
            loaded == [i \in 1 .. Len(list) |-> Article(i, list[i])]
        IN  IF raises
            THEN /\ list = <<>>
                 /\ Finish("load_error")
                 /\ UNCHANGED <<articles, appid, appsecret>>
            ELSE /\ articles' = loaded
                 /\ IF loaded = <<>>
                    THEN /\ Finish("no_articles")
                         /\ UNCHANGED <<appid, appsecret>>
                    ELSE /\ appid' = creds.appid
                         /\ appsecret' = creds.secret
                         /\ IF creds.appid = "" \/ creds.secret = ""
                            THEN Finish("missing_credentials")
                            ELSE pc' = "auth" /\ UNCHANGED exit
    /\ UNCHANGED <<access_token, index, success_count, failure_count, log,
                   attempts, summary>>
    /\ UNCHANGED tokenVars

\* (variant) the empty token is not checked before the loop.
TokenChecked_unchecked(r) ==
    IF r.raised THEN Finish("auth_exception") /\ UNCHANGED access_token
    ELSE /\ access_token' = r.ret
         /\ pc' = "loop" /\ UNCHANGED exit

\* main.py:112-120 after a call that returned r.
TokenChecked(r) ==
    IF r.raised THEN Finish("auth_exception") /\ UNCHANGED access_token
    ELSE /\ access_token' = r.ret
         /\ IF r.ret = "" THEN Finish("no_token")
            ELSE pc' = "loop" /\ UNCHANGED exit

\* main.py:112-120: the token.
AuthStep(resp, d, outcome) ==
    /\ Call(appid, appsecret, resp, d, outcome)
    /\ TokenChecked(get_access_token(cacheFile, now, appid, appsecret,
                                     resp, d, outcome))

Authenticate ==
    /\ pc = "auth"
    /\ IF ~ReachesRequest(cacheFile, now, appid, appsecret)
       THEN AuthStep(AuthFailure("neterr"), 0, "ok")
       ELSE \E resp \in AuthResponses, d \in {0, 1} :
               /\ now + d <= MaxTime
               /\ IF ReachesUpdate(resp)
                  THEN \E outcome \in SaveOutcomes : AuthStep(resp, d, outcome)
                  ELSE AuthStep(resp, d, "ok")
    /\ UNCHANGED <<articles, appid, appsecret, index, success_count,
                   failure_count, log, attempts, summary>>

\* What the history keeps of one upload_draft call: the article's position,
\* the token passed, the errcode and media_id of the endpoint's answer (when
\* a request was made and answered with an object), the result, and whether
\* the log entry could be written.
Attempt(position, resp, r, logged) ==
    [position |-> position, token |-> access_token,
     errcode |-> IF r.net /\ resp.kind = "json" THEN resp.errcode ELSE NoCode,
     media_id |-> IF r.net /\ resp.kind = "json" /\ resp.idStr
                  THEN resp.media_id ELSE "",
     ret |-> r.ret, raised |-> r.raised, printed |-> r.printed,
     logged |-> logged]

\* (variant) an exception raised by upload_draft is not caught in the loop.
Recorded_uncaught(article, r, logged) ==
    IF r.raised
    THEN /\ Finish("upload_exception")
         /\ UNCHANGED <<success_count, failure_count, log, index>>
    ELSE /\ index' = index + 1
         /\ UNCHANGED <<pc, exit>>
         /\ IF r.ret # ""
            THEN /\ success_count' = success_count + 1
                 /\ log' = _write_log_entry(log, SuccessEntry(article.title, r), logged)
                 /\ UNCHANGED failure_count
            ELSE /\ failure_count' = failure_count + 1
                 /\ log' = _write_log_entry(log, FailureEntry(article.title, r), logged)
                 /\ UNCHANGED success_count

\* main.py:136-156: the counters and the log entry after upload_draft.
Recorded(article, r, logged) ==
    /\ index' = index + 1
    /\ UNCHANGED <<pc, exit>>
    /\ IF ~r.raised /\ r.ret # ""
       THEN /\ success_count' = success_count + 1
            /\ log' = _write_log_entry(log, SuccessEntry(article.title, r), logged)
            /\ UNCHANGED failure_count
       ELSE /\ failure_count' = failure_count + 1
            /\ log' = _write_log_entry(log, FailureEntry(article.title, r), logged)
            /\ UNCHANGED success_count

\* main.py:129-156: one turn of the loop, for article index + 1.
UploadArticle ==
    /\ pc = "loop"
    /\ index < Len(articles)
    /\ \E resp \in UploadResponses, logged \in BOOLEAN :
        LET article == articles[index + 1]
            r == upload_draft(access_token, article.title, article.content, resp)
        IN  /\ (ReachesPost(access_token, article.title, article.content)
                    \/ resp = UploadFailure("neterr"))
            /\ attempts' = Append(attempts, Attempt(index + 1, resp, r, logged))
            /\ Recorded(article, r, logged)
    /\ UNCHANGED <<articles, appid, appsecret, access_token, summary>>
    /\ UNCHANGED tokenVars

\* main.py:158-160: the summary.
Summary ==
    /\ pc = "loop"
    /\ index = Len(articles)
    /\ summary' = [reported |-> TRUE, success |-> success_count,
                   failure |-> failure_count]
    /\ Finish("completed")
    /\ UNCHANGED <<articles, appid, appsecret, access_token, index,
                   success_count, failure_count, log, attempts>>
    /\ UNCHANGED tokenVars

MainFiles ==
    {File("absent", EmptyData), File("badenc", EmptyData),
     File("mapping", [EmptyData EXCEPT !["A"] = DictEntry("T0", MaxTime)])}

Init ==
    /\ cacheFile \in MainFiles
    /\ now = 0
    /\ last = NoCall
    /\ calls = 0
    /\ MainInit

Next == LoadArticles \/ Authenticate \/ UploadArticle \/ Summary

Spec == Init /\ [][Next]_vars

\* Every step of main() returns: the two requests are bounded by their
\* 10-second timeouts and nothing else waits.
FairSpec == Spec /\ WF_vars(Next)

----------------------------------------------------------------------------
(* Properties of the token provider (under TokenSpec) *)

CredsGiven(c) == c.id # "" /\ c.secret # ""

\* The last call reached _update_cache and the cache write succeeded.
Refreshed == last.called /\ last.wrote /\ last.saved = "ok"

\* The entry the cache file held for the requested identifier when the last
\* call started, and whether it has a string token and a numeric expiry.
EntryBefore == last.before.data[last.id]
WellTyped(e) == e.tag = "dict" /\ e.tokStr /\ e.expKind = "num"

\* The previous call authenticated over the network, returned a token and
\* persisted it, and the last call, for the same identifier, started inside
\* the validity window that entry was given.
SecondCallInWindow ==
    /\ last.called /\ CredsGiven(last)
    /\ last.prev.refreshed /\ last.prev.ret # ""
    /\ last.id = last.prev.id
    /\ last.t0 < last.prev.t + Max(0, last.prev.L - _CACHE_SAFETY_WINDOW)

\* C3: two calls for the same identifier within the cached validity window
\* make exactly one network call: the first authenticates and persists the
\* token, the second returns that token from the cache without a request.
C3_OneNetworkCall ==
    SecondCallInWindow => ~last.net /\ ~last.raised /\ last.ret = last.prev.ret

C3_Witness ==
    SecondCallInWindow /\ ~last.net /\ last.ret = "T1" /\ last.t0 > 0

\* C4 (as stated): the cached token is returned with no network call whenever
\* the entry has a string token and a numeric expiry and now < expires_at.
C4_AsStated ==
    (last.called /\ CredsGiven(last)) =>
        ((WellTyped(EntryBefore) /\ last.t0 < EntryBefore.expires_at)
            => ~last.net /\ last.ret = EntryBefore.access_token)

\* C4 (amended): for a call that supplies both credentials, the cached token
\* is returned with no network call whenever the entry has a non-empty string
\* token and a numeric expiry and now < expires_at; a token is never served
\* from the cache when now >= expires_at: at now = expires_at a request is
\* issued instead.
C4_CacheHit ==
    (last.called /\ CredsGiven(last) /\ ~last.raised) =>
        /\ (WellTyped(EntryBefore) /\ EntryBefore.access_token # ""
                /\ last.t0 < EntryBefore.expires_at)
              => ~last.net /\ last.ret = EntryBefore.access_token
        /\ (WellTyped(EntryBefore) /\ last.t0 >= EntryBefore.expires_at) => last.net
        /\ (~last.net /\ last.ret # "")
              => WellTyped(EntryBefore) /\ last.t0 < EntryBefore.expires_at

C4_Witness ==
    /\ last.called /\ CredsGiven(last) /\ ~last.net
    /\ WellTyped(EntryBefore) /\ last.ret = EntryBefore.access_token
    /\ last.ret # "" /\ last.t0 + 1 = EntryBefore.expires_at

\* C5: a token refresh whose cache write succeeds writes the identifier's
\* entry into the cache file and leaves every other identifier's entry as it
\* was (merge, not replace).
C5_MergeNotReplace ==
    Refreshed =>
        /\ cacheFile.kind = "mapping"
        /\ WellTyped(cacheFile.data[last.id])
        /\ cacheFile.data[last.id].access_token = last.ret
        /\ \A b \in AppIds \ {last.id} : cacheFile.data[b] = last.before.data[b]

C5_Witness ==
    /\ Refreshed /\ last.ret = "T1"
    /\ \E b \in AppIds \ {last.id} : last.before.data[b].tag = "dict"
    /\ \A b \in AppIds \ {last.id} : cacheFile.data[b] = last.before.data[b]

\* C6 (as stated): whatever the malformed cache content, the call raises no
\* error, proceeds to the network request, and a successful refresh leaves a
\* well-formed cache file.
C6_MalformedCacheIsEmpty ==
    (last.called /\ CredsGiven(last) /\ last.before.kind \in BrokenKinds) =>
        /\ ~last.raised
        /\ last.net
        /\ Refreshed => cacheFile.kind = "mapping"

\* C9: a refresh at time t with declared lifetime L persists
\* expires_at = t + max(0, L - 60).  With L = 61 the entry is served at t and
\* no longer from t + 1 on (valid at least 1 s, less than 61 s); with L <= 60
\* it is expired at issuance, never earlier than t, and the next call for the
\* identifier issues a network request.
C9_Expiry ==
    /\ Refreshed =>
        LET e == cacheFile.data[last.id]
        IN  /\ e.expKind = "num"
            /\ e.expires_at = last.t + Max(0, last.L - _CACHE_SAFETY_WINDOW)
            /\ e.expires_at >= last.t
            /\ last.L <= _CACHE_SAFETY_WINDOW =>
                 \A x \in 0 .. MaxTime :
                    _get_cached_token(cacheFile, last.id, last.t + x) = ""
            /\ (last.L = _CACHE_SAFETY_WINDOW + 1 /\ last.ret # "") =>
                 /\ _get_cached_token(cacheFile, last.id, last.t) = last.ret
                 /\ \A x \in 1 .. _CACHE_SAFETY_WINDOW + 1 :
                       _get_cached_token(cacheFile, last.id, last.t + x) = ""
    /\ (last.called /\ CredsGiven(last) /\ last.prev.refreshed
            /\ last.id = last.prev.id
            /\ last.prev.L <= _CACHE_SAFETY_WINDOW) => last.net

C9_Witness ==
    /\ Refreshed /\ last.L = _CACHE_SAFETY_WINDOW + 1 /\ last.ret = "T1"
    /\ last.prev.refreshed /\ last.prev.L = 30
    /\ last.id = last.prev.id

\* C10 (as stated): a call that returns the empty result leaves the cache
\* file as it was.
C10_EmptyResultLeavesCache ==
    (last.called /\ ~last.raised /\ last.ret = "") => cacheFile = last.before

----------------------------------------------------------------------------
(* Properties of the batch orchestrator (under Spec and FairSpec) *)

Succeeded(a) == ~a.raised /\ a.ret # ""
Successes == Cardinality({i \in 1 .. Len(attempts) : Succeeded(attempts[i])})

\* C1: once a non-empty token was obtained, every article is attempted
\* exactly once, in loader order, whatever the outcome of the articles before
\* it (media id, empty result or exception); the counters count the attempts
\* that returned a media id and the others, and the summary of a batch of N
\* reports them with success + failure = N.
C1_BatchIsolation ==
    access_token # "" =>
        /\ pc \in {"loop", "done"}
        /\ Len(attempts) = index /\ index <= Len(articles)
        /\ \A i \in 1 .. Len(attempts) : attempts[i].position = i
        /\ success_count = Successes
        /\ failure_count = index - Successes
        /\ (pc = "loop" /\ index < Len(articles)) => ENABLED UploadArticle
        /\ (pc = "loop" /\ index = Len(articles)) => ENABLED Summary
        /\ pc = "done" =>
              /\ index = Len(articles)
              /\ summary.reported
              /\ summary.success = Successes
              /\ summary.failure = Len(articles) - Successes
              /\ summary.success + summary.failure = Len(articles)

C1_Witness ==
    /\ pc = "done" /\ Len(articles) = 3 /\ Len(attempts) = 3
    /\ Succeeded(attempts[1]) /\ attempts[2].raised /\ Succeeded(attempts[3])
    /\ summary.success = 2 /\ summary.failure = 1

\* C2: upload_draft is attempted only with both credentials non-empty and
\* with the non-empty token get_access_token returned earlier in the run; a
\* run with a missing credential or an empty token ends with no attempt.
C2_NoUploadWithoutToken ==
    /\ attempts # <<>> =>
          /\ appid # "" /\ appsecret # "" /\ access_token # ""
          /\ last.called /\ ~last.raised /\ last.ret = access_token
          /\ \A i \in 1 .. Len(attempts) : attempts[i].token = access_token
    /\ (pc = "done" /\ (appid = "" \/ appsecret = "" \/ access_token = ""))
          => attempts = <<>>
    /\ (appid = "" \/ appsecret = "") => pc # "loop"
    /\ pc = "loop" => access_token # ""

C2_Witness ==
    /\ pc = "done" /\ articles # <<>> /\ appid # "" /\ appsecret # ""
    /\ last.called /\ last.net /\ last.ret = "" /\ access_token = ""
    /\ attempts = <<>>

\* C7 (as stated): every run that ends has reported the summary counts.
C7_AsStated == pc = "done" => summary.reported

\* C7 (amended): every run of main() ends; it has reported the summary
\* counts exactly when articles were loaded, both credentials were present
\* and a non-empty token was obtained, and has reported nothing otherwise.
C7_Completes ==
    /\ <>(pc = "done")
    /\ [](pc = "done" =>
            (summary.reported <=>
                (articles # <<>> /\ appid # "" /\ appsecret # ""
                    /\ access_token # "")))

C7_Witness ==
    /\ pc = "done" /\ ~summary.reported /\ exit = "auth_exception"
    /\ articles # <<>> /\ last.called /\ last.raised

\* The endpoint answered attempt i with an error code and no media_id.
AnsweredWithCode(i) ==
    attempts[i].errcode.given /\ attempts[i].media_id = ""

EntriesOf(i) == {k \in 1 .. Len(log) : log[k].title = Titles[i]}

\* C8 (as stated): then upload_draft returns the empty result and the
\* failure entry written for the article contains the error code.
C8_AsStated ==
    \A i \in 1 .. Len(attempts) :
        (AnsweredWithCode(i) /\ attempts[i].logged) =>
            /\ attempts[i].ret = ""
            /\ \E k \in EntriesOf(i) :
                  log[k].status = "failure"
                      /\ log[k].detail.errcode = attempts[i].errcode

\* C8 (amended): then upload_draft returns the empty result, having printed
\* and logged the error code itself, and the failure entry the orchestrator
\* writes for the article carries the fixed reason "no media_id returned",
\* not the error code.
C8_GenericFailureEntry ==
    \A i \in 1 .. Len(attempts) :
        AnsweredWithCode(i) =>
            /\ attempts[i].ret = "" /\ ~attempts[i].raised
            /\ attempts[i].printed = attempts[i].errcode
            /\ attempts[i].logged => EntriesOf(i) # {}
            /\ \A k \in EntriesOf(i) :
                  /\ log[k].status = "failure"
                  /\ log[k].detail.kind = "no_media_id"
                  /\ log[k].detail.errcode = NoCode

C8_Witness ==
    \E i \in 1 .. Len(attempts) :
        /\ AnsweredWithCode(i) /\ attempts[i].errcode = Code(40001)
        /\ attempts[i].logged
        /\ \E k \in EntriesOf(i) : log[k].detail.kind = "no_media_id"

====
